---- MODULE Spec2Model ----
(***************************************************************************)
(* The account authentication workflow of backend/routes/auth.py: the      *)
(* signup and login handlers, the request schemas, the email check and the *)
(* password hasher, run against a shared account table.                    *)
(*                                                                         *)
(* The session a handler is given is part of the deployment and is fixed   *)
(* at start-up (session_class).  db.get_session, the dependency the        *)
(* handlers name, yields sqlalchemy's AsyncSession, which has no exec: the *)
(* first statement a handler sends raises AttributeError and the request   *)
(* is answered 500 with no database round trip.  With the dependency       *)
(* replaced by the sqlmodel Session the signatures declare (auth.py:60,    *)
(* auth.py:107), exec, add, commit and refresh are synchronous database    *)
(* round trips.  A handler has no await, so inside one process it runs to  *)
(* completion; the interleavings below are those of several worker         *)
(* processes sharing one database, every database round trip being one     *)
(* atomic step and any of them liable to fail (OperationalError).          *)
(*                                                                         *)
(* bcrypt reads the first 72 bytes of the UTF-8 encoding of a secret.  The bcrypt package under  *)
(* passlib is not pinned by the sources: it either drops the rest or       *)
(* refuses a longer secret (ValueError); which one is fixed at start-up    *)
(* (bcrypt_build).                                                         *)
(*                                                                         *)
(* models.py and jwt_utils.py are not among the sources: the identifier,   *)
(* the creation time and the unique index of the table, and the payload    *)
(* and expiry of the token, follow the written specification.              *)
(*                                                                         *)
(* A string is a sequence of one-character tokens.  The body of a 422 is   *)
(* the error list FastAPI makes from pydantic 2's errors, each with the    *)
(* rejected input (pydantic 1 has no input field); the body of a 500 is    *)
(* the framework's fixed text.                                             *)
(***************************************************************************)
EXTENDS Integers, Sequences, FiniteSets, TLC

\* ------------------------------------------------------------------ bounds
MaxWorkers == 2
MaxTime == 1

\* --------------------------------------------------------- character sets
Lower == {"a","b","c","d","e","f","g","h","i","j","k","l","m",
          "n","o","p","q","r","s","t","u","v","w","x","y","z"}
Upper == {"A","B","C","D","E","F","G","H","I","J","K","L","M",
          "N","O","P","Q","R","S","T","U","V","W","X","Y","Z"}
Digit == {"0","1","2","3","4","5","6","7","8","9"}
Letter == Lower \cup Upper
LocalChars == Letter \cup Digit \cup {".", "_", "%", "+", "-"}
DomainChars == Letter \cup Digit \cup {".", "-"}
LF == "\n"
NUL == "\\0"
\* U+00E9 and U+1F600, characters of two and of four bytes in UTF-8.
EAcute == "\\u00e9"
Grinning == "\\U0001f600"

\* ------------------------------------------------------------- validation
AllIn(s, lo, hi, C) == \A k \in lo..hi : s[k] \in C

\* The pattern of validate_email matched against the whole of s:
\* [a-zA-Z0-9._%+-]+ @ [a-zA-Z0-9.-]+ \. [a-zA-Z]{2,}
FullMatch(s) ==
    \E i \in 2..Len(s) : \E j \in (i + 2)..(Len(s) - 2) :
        /\ s[i] = "@"
        /\ AllIn(s, 1, i - 1, LocalChars)
        /\ s[j] = "."
        /\ AllIn(s, i + 1, j - 1, DomainChars)
        /\ AllIn(s, j + 1, Len(s), Letter)

\* re.match with a closing $: the end of the string, or just before a
\* newline that ends the string.
validate_email(email) ==
    \/ FullMatch(email)
    \/ /\ Len(email) > 0
       /\ email[Len(email)] = LF
       /\ FullMatch(SubSeq(email, 1, Len(email) - 1))

EmailMinLen == 1
EmailMaxLen == 255
PasswordMinLen == 8
NameMaxLen == 255
None == << >>

\* UserCreate: the request body signup accepts.
UserCreateOK_NoMinLength(body) ==
    /\ Len(body.email) >= EmailMinLen
    /\ Len(body.email) <= EmailMaxLen
    /\ Len(body.name) <= NameMaxLen

UserCreateOK(body) ==
    /\ Len(body.email) >= EmailMinLen
    /\ Len(body.email) <= EmailMaxLen
    /\ Len(body.password) >= PasswordMinLen
    /\ Len(body.name) <= NameMaxLen

\* UserLogin: the request body login accepts.
UserLoginOK(body) ==
    /\ Len(body.email) >= EmailMinLen
    /\ Len(body.email) <= EmailMaxLen

\* ----------------------------------------------------------------- hasher
Salts == {"s1", "s2"}

\* The salt of a new digest is random.  The salts are interchangeable, so
\* the first digest stored is taken to have the first of them; a later one
\* has that salt again or the other.
FreshSalts(s) == IF s = {} THEN {"s1"} ELSE Salts
BcryptIdent == "$2b$"

BcryptMaxBytes == 72
MaxPasswordSize == 4096
BcryptBuilds == {"truncates", "refuses"}

\* The bytes of one character in UTF-8.
Utf8(ch) ==
    IF ch = EAcute THEN <<"\\xc3", "\\xa9">>
    ELSE IF ch = Grinning THEN <<"\\xf0", "\\x9f", "\\x98", "\\x80">>
    ELSE <<ch>>

\* secret.encode("utf-8"): passlib hands bcrypt the bytes of the secret.
\* A secret of one-byte characters is its own encoding.
RECURSIVE Encode(_)
Encode(secret) ==
    IF \A k \in 1..Len(secret) : secret[k] \notin {EAcute, Grinning} THEN secret
    ELSE Utf8(Head(secret)) \o Encode(Tail(secret))

\* The bytes of a secret bcrypt reads.
Truncate(bytes) ==
    IF Len(bytes) > BcryptMaxBytes THEN SubSeq(bytes, 1, BcryptMaxBytes)
    ELSE bytes

\* The exception pwd_context.hash and pwd_context.verify raise on a secret
\* ("" when they take it): passlib refuses a secret of more than 4096
\* characters, the bcrypt handler one whose bytes hold a zero byte (U+0000
\* is the one character whose encoding has one), and the refusing bcrypt
\* build one of more than 72 bytes.
HasherError(secret, build) ==
    IF Len(secret) > MaxPasswordSize THEN "PasswordSizeError"
    ELSE IF \E k \in 1..Len(secret) : secret[k] = NUL THEN "NullPasswordError"
    ELSE IF build = "refuses" /\ Len(Encode(secret)) > BcryptMaxBytes
    THEN "ValueError"
    ELSE ""

\* pwd_context.hash: the identifier, the fresh salt, and a checksum that is
\* a function of the salt and of the bytes of the secret bcrypt reads.
hash_password(password, salt) ==
    <<BcryptIdent, salt>> \o Truncate(Encode(password))

\* pwd_context.verify: recompute with the salt the digest carries.
verify_password(plain_password, hashed_password) ==
    /\ Len(hashed_password) >= 2
    /\ hashed_password[1] = BcryptIdent
    /\ hashed_password = hash_password(plain_password, hashed_password[2])

\* ------------------------------------------------------------------ token
TokenWindow == 1

\* create_access_token: subject, email, issued-at, expiry.
create_access_token(id, email, t) ==
    [sub |-> id, email |-> email, iat |-> t, exp |-> t + TokenWindow]

verify_token_NoExpiry(token, t) ==
    [kind |-> "ok", subjectId |-> token.sub, subjectEmail |-> token.email]

\* Token verification at time t.
verify_token(token, t) ==
    IF t >= token.exp
    THEN [kind |-> "TokenExpired"]
    ELSE [kind |-> "ok", subjectId |-> token.sub, subjectEmail |-> token.email]

\* -------------------------------------------------------------- responses
Err(status, detail) == [status |-> status, detail |-> detail]

\* pydantic's string_too_short and string_too_long errors as FastAPI puts
\* them in the body of a 422: location, message, the rejected input and
\* the limit.
TooShort(field, value, min) ==
    [type |-> "string_too_short", loc |-> <<"body", field>>,
     msg |-> <<"String should have at least", min,
               IF min = 1 THEN "character" ELSE "characters">>,
     input |-> value, ctx |-> [min_length |-> min]]
TooLong(field, value, max) ==
    [type |-> "string_too_long", loc |-> <<"body", field>>,
     msg |-> <<"String should have at most", max,
               IF max = 1 THEN "character" ELSE "characters">>,
     input |-> value, ctx |-> [max_length |-> max]]

EmailErrors(body) ==
    IF Len(body.email) < EmailMinLen
    THEN <<TooShort("email", body.email, EmailMinLen)>>
    ELSE IF Len(body.email) > EmailMaxLen
    THEN <<TooLong("email", body.email, EmailMaxLen)>>
    ELSE << >>

\* The errors of UserCreate, in field order.
UserCreateErrors(body) ==
    EmailErrors(body)
    \o (IF Len(body.password) < PasswordMinLen
        THEN <<TooShort("password", body.password, PasswordMinLen)>>
        ELSE << >>)
    \o (IF Len(body.name) > NameMaxLen
        THEN <<TooLong("name", body.name, NameMaxLen)>>
        ELSE << >>)

\* The errors of UserLogin.
UserLoginErrors(body) == EmailErrors(body)

\* RequestValidationError: 422 with the error list as detail.
ValidationError(errors) == [status |-> 422, detail |-> errors]
InvalidEmail == Err(400, "Invalid email format")
EmailTaken == Err(400, "Email already registered")
InvalidCredentials == Err(401, "Invalid email or password")
InternalError == Err(500, "Internal Server Error")
NoResp == Err(0, "")

isoformat(t) == <<"iso", t>>

\* UserResponse(id=..., email=..., name=..., created_at=...)
UserResponse(user) ==
    [id |-> user.id, email |-> user.email, name |-> user.name,
     created_at |-> isoformat(user.created_at)]

\* TokenResponse(token=create_access_token(user.id, user.email), user=...)
TokenResponse(status, user, t) ==
    [status |-> status,
     token |-> create_access_token(user.id, user.email, t),
     user |-> UserResponse(user)]

\* ------------------------------------------------------------------ store
\* select(User).where(User.email == email).first()
HasEmail(s, email) == \E u \in s : u.email = email
FindByEmail(s, email) == CHOOSE u \in s : u.email = email

UniqueViolation_None(s, email) == FALSE

\* The unique index on the email column.
UniqueViolation(s, email) == HasEmail(s, email)

Insert_Replace(s, user) == {user}

\* session.add(new_user); session.commit()
Insert(s, user) == s \cup {user}

\* User(email=..., password_hash=..., name=...) with the server-side id and
\* creation time.
NewUser(id, body, digest, t) ==
    [id |-> id, email |-> body.email, password_hash |-> digest,
     name |-> body.name, created_at |-> t]

\* ----------------------------------------------------------------- inputs
Str_ab == <<"a","@","b",".","c","o">>
Str_cd == <<"c","@","d",".","i","o">>
Str_nodot == <<"u","@","d","o","m">>
Pw_good == <<"p","a","s","s","w","o","r","d">>
Pw_other == <<"p","a","s","s","w","0","r","d">>
Pw_short == <<"s","h","o","r","t">>
Pw_nul == <<"p","a","s","s",NUL,"w","o","r","d">>
Bob == <<"B","o","b">>
\* Two passwords of 20 characters and 73 bytes that differ in the last
\* byte only.
Pw_long72 == [k \in 1..17 |-> Grinning] \o <<EAcute, EAcute>>
Pw_long_b == Pw_long72 \o <<"b">>
Pw_long_c == Pw_long72 \o <<"c">>
Body(email, password, name) == [email |-> email, password |-> password, name |-> name]
SignupBodies ==
    {Body(Str_ab, Pw_good, None), Body(Str_cd, Pw_long_b, Bob),
     Body(Str_ab, Pw_nul, None), Body(Str_ab, Pw_short, None),
     Body(Str_nodot, Pw_good, None), Body(Str_nodot, Pw_short, Bob)}
LoginBodies ==
    {Body(Str_ab, Pw_good, None), Body(Str_ab, Pw_other, None),
     Body(Str_ab, Pw_nul, None), Body(Str_cd, Pw_long_b, None),
     Body(Str_cd, Pw_long_c, None), Body(Str_ab, Pw_long_c, None)}

\* ------------------------------------------------------------------ state
\* store    the account table
\* nextId   the next identifier the table hands out
\* req      per worker, the request it is handling
\* last     the request answered last, with its response
\* now      the clock
\* plain    history: for each account id, the password it was registered with
\* returned history: the id every successful signup response showed
\* session_class  the class of the session the handlers are given
\* bcrypt_build    what the bcrypt package does with a secret over 72 bytes
VARIABLES store, nextId, req, last, now, plain, returned,
          session_class, bcrypt_build
vars == <<store, nextId, req, last, now, plain, returned,
          session_class, bcrypt_build>>
deployment == <<session_class, bcrypt_build>>

Workers == 1..MaxWorkers

IdleReq ==
    [kind |-> "none", body |-> Body(None, None, None),
     pc |-> "idle", reads |-> 0, writes |-> 0, uid |-> 0, exc |-> "",
     resp |-> NoResp, known |-> FALSE, priorId |-> 0]

Init ==
    /\ store = {}
    /\ nextId = 1
    /\ req = [r \in Workers |-> IdleReq]
    /\ last = IdleReq
    /\ now = 0
    /\ plain = {}
    /\ returned = {}
    /\ \/ session_class = "AsyncSession" /\ bcrypt_build = "truncates"
       \/ session_class = "Session" /\ bcrypt_build \in BcryptBuilds

\* A request is taken by the first idle worker.
Arrives(r) ==
    /\ req[r].pc = "idle"
    /\ \A q \in Workers : q < r => req[q].pc # "idle"

\* The response is sent and the worker is free again.
Finish(r, rec, resp, exc) ==
    /\ last' = [rec EXCEPT !.pc = "done", !.resp = resp, !.exc = exc]
    /\ req' = [req EXCEPT ![r] = IdleReq]

\* ----------------------------------------------------------------- signup
SignupCheck_LookupFirst(body, s) ==
    IF HasEmail(s, body.email)
    THEN [out |-> "EmailTaken", reads |-> 1]
    ELSE IF ~validate_email(body.email)
         THEN [out |-> "InvalidEmail", reads |-> 1]
         ELSE [out |-> "ok", reads |-> 1]

\* signup, lines 62-78: the email check, then the existence check.
SignupCheck(body, s) ==
    IF ~validate_email(body.email)
    THEN [out |-> "InvalidEmail", reads |-> 0]
    ELSE IF HasEmail(s, body.email)
         THEN [out |-> "EmailTaken", reads |-> 1]
         ELSE [out |-> "ok", reads |-> 1]

\* The body is validated, then signup runs up to its SELECT.  An
\* AsyncSession has no exec: AttributeError, nothing sent.  A store round
\* trip may fail (connection lost): OperationalError.
SignupStart(r, body) ==
    /\ Arrives(r)
    /\ LET rec == [req[r] EXCEPT !.kind = "signup", !.body = body]
           chk == SignupCheck(body, store)
           rd == [rec EXCEPT !.reads = chk.reads]
       IN  IF ~UserCreateOK(body)
           THEN Finish(r, rec, ValidationError(UserCreateErrors(body)),
                       "RequestValidationError")
           ELSE IF chk.reads = 0
           THEN Finish(r, rec, InvalidEmail, "HTTPException")
           ELSE IF session_class = "AsyncSession"
           THEN Finish(r, rec, InternalError, "AttributeError")
           ELSE \E fault \in BOOLEAN :
                IF fault
                THEN Finish(r, rd, InternalError, "OperationalError")
                ELSE IF chk.out = "InvalidEmail"
                THEN Finish(r, rd, InvalidEmail, "HTTPException")
                ELSE IF chk.out = "EmailTaken"
                THEN Finish(r, rd, EmailTaken, "HTTPException")
                ELSE /\ req' = [req EXCEPT ![r] = [rd EXCEPT !.pc = "checked"]]
                     /\ UNCHANGED last
    /\ UNCHANGED <<store, nextId, now, plain, returned, deployment>>

\* signup, lines 81-89: hash, add, commit.
SignupCommit(r) ==
    /\ req[r].pc = "checked"
    /\ LET rec == req[r]
           body == rec.body
           err == HasherError(body.password, bcrypt_build)
       IN  IF err # ""
           THEN /\ Finish(r, rec, InternalError, err)
                /\ UNCHANGED <<store, nextId, plain>>
           ELSE \E salt \in FreshSalts(store) : \E fault \in BOOLEAN :
                IF fault
                THEN /\ Finish(r, rec, InternalError, "OperationalError")
                     /\ UNCHANGED <<store, nextId, plain>>
                ELSE IF UniqueViolation(store, body.email)
                THEN /\ Finish(r, rec, InternalError, "IntegrityError")
                     /\ UNCHANGED <<store, nextId, plain>>
                ELSE /\ store' = Insert(store,
                            NewUser(nextId, body, hash_password(body.password, salt), now))
                     /\ nextId' = nextId + 1
                     /\ plain' = plain \cup {[id |-> nextId, password |-> body.password]}
                     /\ req' = [req EXCEPT ![r] =
                            [rec EXCEPT !.pc = "committed", !.writes = 1, !.uid = nextId]]
                     /\ UNCHANGED last
    /\ UNCHANGED <<now, returned, deployment>>

\* signup, lines 90-103: refresh, token, response.
SignupRefresh(r) ==
    /\ req[r].pc = "committed"
    /\ LET rec == [req[r] EXCEPT !.reads = @ + 1]
       IN  \E fault \in BOOLEAN :
           IF fault \/ ~(\E u \in store : u.id = rec.uid)
           THEN /\ Finish(r, rec, InternalError, "OperationalError")
                /\ UNCHANGED returned
           ELSE LET new_user == CHOOSE u \in store : u.id = rec.uid
                    resp == TokenResponse(201, new_user, now)
                IN  /\ Finish(r, rec, resp, "")
                    /\ returned' = returned \cup {resp.user.id}
    /\ UNCHANGED <<store, nextId, now, plain, deployment>>

\* ------------------------------------------------------------------ login
LoginResult_SwappedArgs(body, s, t, build) ==
    IF ~HasEmail(s, body.email)
    THEN [resp |-> InvalidCredentials, exc |-> "HTTPException"]
    ELSE LET user == FindByEmail(s, body.email)
             err == HasherError(body.password, build)
         IN  IF err # ""
             THEN [resp |-> InternalError, exc |-> err]
             ELSE IF ~verify_password(user.password_hash, body.password)
             THEN [resp |-> InvalidCredentials, exc |-> "HTTPException"]
             ELSE [resp |-> TokenResponse(200, user, t), exc |-> ""]

\* login, lines 109-138, on the rows the SELECT returned.
LoginResult(body, s, t, build) ==
    IF ~HasEmail(s, body.email)
    THEN [resp |-> InvalidCredentials, exc |-> "HTTPException"]
    ELSE LET user == FindByEmail(s, body.email)
             err == HasherError(body.password, build)
         IN  IF err # ""
             THEN [resp |-> InternalError, exc |-> err]
             ELSE IF ~verify_password(body.password, user.password_hash)
             THEN [resp |-> InvalidCredentials, exc |-> "HTTPException"]
             ELSE [resp |-> TokenResponse(200, user, t), exc |-> ""]

\* The id a successful signup of the same email and password has returned
\* to its caller (0 when there is none).
RegisteredBefore(body) ==
    LET S == {u \in store : /\ u.id \in returned
                             /\ u.email = body.email
                             /\ \E x \in plain : x.id = u.id /\ x.password = body.password}
    IN  IF S = {} THEN 0 ELSE (CHOOSE u \in S : TRUE).id

Login(r, body) ==
    /\ Arrives(r)
    /\ LET rec == [req[r] EXCEPT !.kind = "login", !.body = body]
           rd == [rec EXCEPT !.reads = 1,
                             !.known = HasEmail(store, body.email),
                             !.priorId = RegisteredBefore(body)]
           res == LoginResult(body, store, now, bcrypt_build)
       IN  IF ~UserLoginOK(body)
           THEN Finish(r, rec, ValidationError(UserLoginErrors(body)),
                       "RequestValidationError")
           ELSE IF session_class = "AsyncSession"
           THEN Finish(r, rec, InternalError, "AttributeError")
           ELSE \E fault \in BOOLEAN :
                IF fault
                THEN Finish(r, rd, InternalError, "OperationalError")
                ELSE Finish(r, rd, res.resp, res.exc)
    /\ UNCHANGED <<store, nextId, now, plain, returned, deployment>>

\* ------------------------------------------------------------------ clock
Tick ==
    /\ now < MaxTime
    /\ now' = now + 1
    /\ UNCHANGED <<store, nextId, req, last, plain, returned, deployment>>

Next ==
    \/ \E r \in Workers : \E body \in SignupBodies : SignupStart(r, body)
    \/ \E r \in Workers : SignupCommit(r)
    \/ \E r \in Workers : SignupRefresh(r)
    \/ \E r \in Workers : \E body \in LoginBodies : Login(r, body)
    \/ Tick

Spec == Init /\ [][Next]_vars

\* ----------------------------------------------------------- vocabulary
Answered(kind) == last.pc = "done" /\ last.kind = kind
Succeeded == last.resp.status \in {200, 201}
StoreFault == last.exc = "OperationalError"
\* The response is the error err (the status is compared first: the detail
\* of a 422 is a list, that of the other errors a string).
Is(resp, err) == resp.status = err.status /\ resp = err
PlainOf(id) == (CHOOSE x \in plain : x.id = id).password

\* A signup the workflow has to decide: its body passes the schema, its
\* email passes the check, the hasher takes its password, the session is a
\* Session and the store answers.
ProperSignup ==
    /\ Answered("signup")
    /\ UserCreateOK(last.body)
    /\ validate_email(last.body.email)
    /\ HasherError(last.body.password, bcrypt_build) = ""
    /\ session_class = "Session"
    /\ ~StoreFault

\* ------------------------------------------------------------------ C1
\* C1: of the signups carrying one email, run in sequence or interleaved
\* between the existence check and the commit, exactly one returns a token
\* and every other one fails with EmailTaken, never with another failure.
C1_OneTokenOthersEmailTaken ==
    /\ ProperSignup => (last.resp.status = 201 \/ Is(last.resp, EmailTaken))
    /\ \A u, v \in store :
          (u.id \in returned /\ v.id \in returned /\ u.email = v.email) => u = v

\* ------------------------------------------------------------------ C2
\* C2: once a signup of email e and password p has returned a token, a
\* login with e and p, whatever other requests came in between, succeeds
\* (the store answering) and shows the id the signup response showed.
C2_RegisterThenAuthenticate ==
    (Answered("login") /\ last.priorId # 0 /\ ~StoreFault)
        => (last.resp.status = 200 /\ last.resp.user.id = last.priorId)

C2_Witness ==
    /\ Answered("login")
    /\ last.priorId # 0
    /\ last.resp.status = 200
    /\ last.resp.user.id = last.priorId
    /\ Cardinality(store) = 2

\* ------------------------------------------------------------------ C3
\* C3: a login with a registered email and a wrong password gets the very
\* response the same request gets in the run where that email is not
\* registered.
C3_LoginFailuresIndistinguishable ==
    (/\ Answered("login")
     /\ last.known
     /\ ~StoreFault
     /\ Truncate(Encode(last.body.password))
            # Truncate(Encode(PlainOf(FindByEmail(store, last.body.email).id))))
        => last.resp = LoginResult(last.body,
                                   {u \in store : u.email # last.body.email},
                                   now, bcrypt_build).resp

\* ------------------------------------------------------------------ C4
\* C4 as stated: the step that answers a signup whose password is
\* shorter than 8 characters rejects it with no store statement run and
\* the store unchanged, and after it no account for that email exists.
C4_AsStated ==
    [][(last' # last /\ last'.kind = "signup"
            /\ Len(last'.body.password) < PasswordMinLen)
          => /\ last'.resp.status = 422
             /\ last'.reads = 0
             /\ last'.writes = 0
             /\ store' = store
             /\ ~HasEmail(store', last'.body.email)]_vars

\* C4 amended: the step that answers a signup whose password is shorter
\* than 8 characters rejects it with no store statement run and the store
\* unchanged (an account its email already has stays); no request in
\* flight and no account comes from such a password.
C4_ShortPasswordRejectedBeforeStore ==
    [][/\ (last' # last /\ last'.kind = "signup"
            /\ Len(last'.body.password) < PasswordMinLen)
          => /\ last'.resp.status = 422
             /\ last'.reads = 0
             /\ last'.writes = 0
             /\ store' = store
       /\ \A r \in Workers :
             req'[r].pc # "idle"
                 => Len(req'[r].body.password) >= PasswordMinLen
       /\ \A x \in plain' : Len(x.password) >= PasswordMinLen]_vars

\* The rejected signup carried an email whose registration had been
\* answered before.
C4_Witness ==
    /\ Answered("signup")
    /\ Len(last.body.password) < PasswordMinLen
    /\ last.resp.status = 422
    /\ last.reads = 0
    /\ \E u \in store : u.email = last.body.email /\ u.id \in returned

\* ------------------------------------------------------------------ C5
\* C5 as stated: every signup whose email fails the check fails with
\* InvalidEmail before any store statement, and a signup whose email
\* passes never fails with InvalidEmail.
C5_AsStated ==
    /\ (Answered("signup") /\ ~validate_email(last.body.email))
          => (Is(last.resp, InvalidEmail) /\ last.reads = 0 /\ last.writes = 0)
    /\ (Answered("signup") /\ validate_email(last.body.email))
          => ~Is(last.resp, InvalidEmail)

\* C5 amended: a signup whose body passes the request schema and whose
\* email fails the check fails with InvalidEmail before any store
\* statement; a signup whose email passes never fails with InvalidEmail.
C5_InvalidEmailFirst ==
    /\ (Answered("signup") /\ UserCreateOK(last.body)
            /\ ~validate_email(last.body.email))
          => (Is(last.resp, InvalidEmail) /\ last.reads = 0 /\ last.writes = 0)
    /\ (Answered("signup") /\ validate_email(last.body.email))
          => ~Is(last.resp, InvalidEmail)

C5_Witness ==
    /\ Answered("signup")
    /\ UserCreateOK(last.body)
    /\ ~validate_email(last.body.email)
    /\ Is(last.resp, InvalidEmail)
    /\ store # {}

\* ------------------------------------------------------------------ C6
\* C6: the token of a successful response names an account of the store,
\* the one the response shows; verified at its issue time it yields that
\* id and email, verified once the validity window has elapsed it yields
\* TokenExpired.
C6_TokenNamesAccountThenExpires ==
    (last.pc = "done" /\ Succeeded) =>
        LET tk == last.resp.token
            view == last.resp.user
        IN  /\ \E u \in store : u.id = view.id /\ u.email = view.email
            /\ now = tk.iat =>
                  verify_token(tk, now) =
                      [kind |-> "ok", subjectId |-> view.id,
                       subjectEmail |-> view.email]
            /\ now >= tk.iat + TokenWindow =>
                  verify_token(tk, now).kind = "TokenExpired"

C6_Witness ==
    /\ last.pc = "done"
    /\ Succeeded
    /\ now >= last.resp.token.iat + TokenWindow
    /\ verify_token(last.resp.token, now).kind = "TokenExpired"

\* ------------------------------------------------------------------ C7
\* C7: every stored account holds a digest the hasher made from its
\* registration password, not that password; a successful response has
\* the fields status, token, user{id, email, name, created_at} and none of
\* them holds a stored digest or the password of the request; an error
\* response is one of the fixed errors or a 422 none of whose entries
\* holds a stored digest or the password of the request.
C7_DigestStoredNeverReturned ==
    /\ \A u \in store :
          /\ u.password_hash # PlainOf(u.id)
          /\ \E salt \in Salts :
                u.password_hash = hash_password(PlainOf(u.id), salt)
    /\ (last.pc = "done" /\ Succeeded) =>
          /\ DOMAIN last.resp = {"status", "token", "user"}
          /\ DOMAIN last.resp.user = {"id", "email", "name", "created_at"}
          /\ DOMAIN last.resp.token = {"sub", "email", "iat", "exp"}
          /\ \A u \in store :
                /\ last.resp.user.email # u.password_hash
                /\ last.resp.user.name # u.password_hash
                /\ last.resp.token.email # u.password_hash
          /\ last.resp.user.email # last.body.password
          /\ last.resp.token.email # last.body.password
    /\ (last.pc = "done" /\ ~Succeeded) =>
          IF last.resp.status = 422
          THEN \A k \in 1..Len(last.resp.detail) :
                  /\ last.resp.detail[k].input # last.body.password
                  /\ \A u \in store :
                        last.resp.detail[k].input # u.password_hash
          ELSE last.resp \in {InvalidEmail, EmailTaken, InvalidCredentials,
                              InternalError}

\* ------------------------------------------------------------------ C8
\* C8: the store never holds two accounts with one email, however the
\* signups interleave.
C8_OneAccountPerEmail ==
    \A u, v \in store : u.email = v.email => u = v

\* Two signups of one email both passed the existence check; the commit
\* of the second was refused.
C8_Witness ==
    /\ Answered("signup")
    /\ last.exc = "IntegrityError"
    /\ HasEmail(store, last.body.email)

\* ------------------------------------------------------------------ C9
\* C9: a completed signup has created an account if and only if it
\* returned a token and account view; one that ends in an error has
\* written nothing.
C9_CreatedIffTokenReturned ==
    Answered("signup") => (last.writes = 1 <=> last.resp.status = 201)

\* ----------------------------------------------------------------- C10
\* C10: no step removes or alters a stored account, and the step that
\* answers a login leaves the store as it was.
C10_AccountsNeverChange ==
    [][/\ \A u \in store : u \in store'
       /\ (last' # last /\ last'.kind = "login") => store' = store]_vars

C10_Witness ==
    /\ Answered("login")
    /\ last.known
    /\ Cardinality(store) = 2

====
